---------------------------- MODULE Spec2Model ----------------------------
(***************************************************************************)
(* Model of src/dashboard.py, the Streamlit script of the US Education     *)
(* Dashboard.  A Python str is modelled as a sequence of one-character     *)
(* strings, so that strip, split, replace, title and upper are computed    *)
(* character by character as Python computes them.                         *)
(***************************************************************************)
EXTENDS Integers, Sequences, FiniteSets, TLC

(***************************************************************************)
(* Python str primitives used by to_state_code.  A character is a          *)
(* one-character string; the tables cover the code points U+0000..U+00FF,  *)
(* which are the characters a string literal can hold.                     *)
(***************************************************************************)
Lowers == <<"a","b","c","d","e","f","g","h","i","j","k","l","m",
            "n","o","p","q","r","s","t","u","v","w","x","y","z">>

Uppers == <<"A","B","C","D","E","F","G","H","I","J","K","L","M",
            "N","O","P","Q","R","S","T","U","V","W","X","Y","Z">>

\* The letters of U+00E0..U+00FE whose upper case is one character of
\* U+00C0..U+00DE, and those upper-case letters
LatinLowers == <<"à","á","â","ã","ä","å","æ","ç","è","é","ê","ë","ì",
               "í","î","ï","ð","ñ","ò","ó","ô","õ","ö","ø","ù","ú",
               "û","ü","ý","þ">>

LatinUppers == <<"À","Á","Â","Ã","Ä","Å","Æ","Ç","È","É","Ê","Ë","Ì",
               "Í","Î","Ï","Ð","Ñ","Ò","Ó","Ô","Õ","Ö","Ø","Ù","Ú",
               "Û","Ü","Ý","Þ">>

AllLowers == Lowers \o LatinLowers

AllUppers == Uppers \o LatinUppers

ToUpperMap == [c \in {AllLowers[i] : i \in 1..Len(AllLowers)} |->
                 AllUppers[CHOOSE i \in 1..Len(AllLowers) : AllLowers[i] = c]]

ToLowerMap == [c \in {AllUppers[i] : i \in 1..Len(AllUppers)} |->
                 AllLowers[CHOOSE i \in 1..Len(AllUppers) : AllUppers[i] = c]]

\* Upper-case letters above U+00FF, written by their code point
Y_DIAERESIS == "U+0178"

GREEK_MU == "U+039C"

\* Letters whose upper case is not one character of U+0000..U+00FF:
\* U+00DF (sharp s), U+00FF (y with diaeresis), U+00B5 (micro sign)
SpecialUpper ==
    ("ß" :> <<"S", "S">>) @@ ("ÿ" :> <<Y_DIAERESIS>>) @@ ("µ" :> <<GREEK_MU>>)

\* Their title case
SpecialTitle ==
    ("ß" :> <<"S", "s">>) @@ ("ÿ" :> <<Y_DIAERESIS>>) @@ ("µ" :> <<GREEK_MU>>)

\* Letters without an upper or lower case: U+00AA, U+00BA (ordinal indicators)
Caseless == {"ª", "º"}

\* str.isalpha() on one character
IsLetter(c) ==
    \/ c \in DOMAIN ToUpperMap
    \/ c \in DOMAIN ToLowerMap
    \/ c \in DOMAIN SpecialUpper
    \/ c \in Caseless
    \/ c \in {Y_DIAERESIS, GREEK_MU}

\* A cased character, as str.title() tests the character before
IsCased(c) == IsLetter(c)

\* The characters of U+0000..U+00FF that str.isspace() accepts: U+0009..U+000D,
\* U+001C..U+001F, U+0020, U+0085, U+00A0
Whitespace ==
    {"\t", "\n", "", "\f", "\r", "", "", "", "", " ", "", " "}

\* str.isspace() on one character
IsSpace(c) == c \in Whitespace

upper1(c) == IF c \in DOMAIN ToUpperMap THEN ToUpperMap[c] ELSE c

lower1(c) == IF c \in DOMAIN ToLowerMap THEN ToLowerMap[c] ELSE c

\* The upper case of one character, as a str
upper_of(c) == IF c \in DOMAIN SpecialUpper THEN SpecialUpper[c] ELSE <<upper1(c)>>

\* The title case of one character, as a str
title_of(c) == IF c \in DOMAIN SpecialTitle THEN SpecialTitle[c] ELSE <<upper1(c)>>

\* The strs of a sequence, concatenated
RECURSIVE Flatten(_)
Flatten(strs) ==
    IF strs = <<>> THEN <<>> ELSE Head(strs) \o Flatten(Tail(strs))

\* str.upper()
upper(str) == Flatten([i \in 1..Len(str) |-> upper_of(str[i])])

\* str.isalpha(): every character alphabetic and at least one character
isalpha(str) == Len(str) > 0 /\ \A i \in 1..Len(str) : IsLetter(str[i])

\* str.strip(): leading and trailing whitespace removed
strip(str) ==
    LET keep == {i \in 1..Len(str) : ~IsSpace(str[i])}
    IN  IF keep = {} THEN <<>>
        ELSE LET lo == CHOOSE i \in keep : \A j \in keep : i <= j
                 hi == CHOOSE i \in keep : \A j \in keep : i >= j
             IN  SubSeq(str, lo, hi)

\* str.replace(old, new) for a one-character old and new
replace(str, old, new) ==
    [i \in 1..Len(str) |-> IF str[i] = old THEN new ELSE str[i]]

\* " ".join(str.split()): words separated by runs of whitespace, joined by
\* one space
RECURSIVE join_split(_)
join_split(str) ==
    LET t == strip(str)
    IN  IF t = <<>> THEN <<>>
        ELSE LET sp == {i \in 1..Len(t) : IsSpace(t[i])}
             IN  IF sp = {} THEN t
                 ELSE LET k == CHOOSE i \in sp : \A j \in sp : i <= j
                      IN  SubSeq(t, 1, k - 1) \o <<" ">>
                            \o join_split(SubSeq(t, k + 1, Len(t)))

\* str.title(): a character is lower-cased when the character before it is
\* cased, title-cased otherwise
title(str) ==
    Flatten([i \in 1..Len(str) |->
        IF i > 1 /\ IsCased(str[i - 1]) THEN <<lower1(str[i])>>
        ELSE title_of(str[i])])

\* Python's None, as a value no str equals
None == <<"None">>

(***************************************************************************)
(* STATE_TO_CODE and to_state_code.                                        *)
(***************************************************************************)
STATE_TO_CODE ==
       (<<"A","l","a","b","a","m","a">> :> <<"A","L">>) @@
       (<<"A","l","a","s","k","a">> :> <<"A","K">>) @@
       (<<"A","r","i","z","o","n","a">> :> <<"A","Z">>) @@
       (<<"A","r","k","a","n","s","a","s">> :> <<"A","R">>) @@
       (<<"C","a","l","i","f","o","r","n","i","a">> :> <<"C","A">>) @@
       (<<"C","o","l","o","r","a","d","o">> :> <<"C","O">>) @@
       (<<"C","o","n","n","e","c","t","i","c","u","t">> :> <<"C","T">>) @@
       (<<"D","e","l","a","w","a","r","e">> :> <<"D","E">>) @@
       (<<"D","i","s","t","r","i","c","t"," ","o","f"," ","C","o","l","u","m","b","i","a">> :> <<"D","C">>) @@
       (<<"F","l","o","r","i","d","a">> :> <<"F","L">>) @@
       (<<"G","e","o","r","g","i","a">> :> <<"G","A">>) @@
       (<<"H","a","w","a","i","i">> :> <<"H","I">>) @@
       (<<"I","d","a","h","o">> :> <<"I","D">>) @@
       (<<"I","l","l","i","n","o","i","s">> :> <<"I","L">>) @@
       (<<"I","n","d","i","a","n","a">> :> <<"I","N">>) @@
       (<<"I","o","w","a">> :> <<"I","A">>) @@
       (<<"K","a","n","s","a","s">> :> <<"K","S">>) @@
       (<<"K","e","n","t","u","c","k","y">> :> <<"K","Y">>) @@
       (<<"L","o","u","i","s","i","a","n","a">> :> <<"L","A">>) @@
       (<<"M","a","i","n","e">> :> <<"M","E">>) @@
       (<<"M","a","r","y","l","a","n","d">> :> <<"M","D">>) @@
       (<<"M","a","s","s","a","c","h","u","s","e","t","t","s">> :> <<"M","A">>) @@
       (<<"M","i","c","h","i","g","a","n">> :> <<"M","I">>) @@
       (<<"M","i","n","n","e","s","o","t","a">> :> <<"M","N">>) @@
       (<<"M","i","s","s","i","s","s","i","p","p","i">> :> <<"M","S">>) @@
       (<<"M","i","s","s","o","u","r","i">> :> <<"M","O">>) @@
       (<<"M","o","n","t","a","n","a">> :> <<"M","T">>) @@
       (<<"N","e","b","r","a","s","k","a">> :> <<"N","E">>) @@
       (<<"N","e","v","a","d","a">> :> <<"N","V">>) @@
       (<<"N","e","w"," ","H","a","m","p","s","h","i","r","e">> :> <<"N","H">>) @@
       (<<"N","e","w"," ","J","e","r","s","e","y">> :> <<"N","J">>) @@
       (<<"N","e","w"," ","M","e","x","i","c","o">> :> <<"N","M">>) @@
       (<<"N","e","w"," ","Y","o","r","k">> :> <<"N","Y">>) @@
       (<<"N","o","r","t","h"," ","C","a","r","o","l","i","n","a">> :> <<"N","C">>) @@
       (<<"N","o","r","t","h"," ","D","a","k","o","t","a">> :> <<"N","D">>) @@
       (<<"O","h","i","o">> :> <<"O","H">>) @@
       (<<"O","k","l","a","h","o","m","a">> :> <<"O","K">>) @@
       (<<"O","r","e","g","o","n">> :> <<"O","R">>) @@
       (<<"P","e","n","n","s","y","l","v","a","n","i","a">> :> <<"P","A">>) @@
       (<<"R","h","o","d","e"," ","I","s","l","a","n","d">> :> <<"R","I">>) @@
       (<<"S","o","u","t","h"," ","C","a","r","o","l","i","n","a">> :> <<"S","C">>) @@
       (<<"S","o","u","t","h"," ","D","a","k","o","t","a">> :> <<"S","D">>) @@
       (<<"T","e","n","n","e","s","s","e","e">> :> <<"T","N">>) @@
       (<<"T","e","x","a","s">> :> <<"T","X">>) @@
       (<<"U","t","a","h">> :> <<"U","T">>) @@
       (<<"V","e","r","m","o","n","t">> :> <<"V","T">>) @@
       (<<"V","i","r","g","i","n","i","a">> :> <<"V","A">>) @@
       (<<"W","a","s","h","i","n","g","t","o","n">> :> <<"W","A">>) @@
       (<<"W","e","s","t"," ","V","i","r","g","i","n","i","a">> :> <<"W","V">>) @@
       (<<"W","i","s","c","o","n","s","i","n">> :> <<"W","I">>) @@
       (<<"W","y","o","m","i","n","g">> :> <<"W","Y">>)

Codes == {STATE_TO_CODE[n] : n \in DOMAIN STATE_TO_CODE}

\* upper_map = {k.upper(): v for k, v in STATE_TO_CODE.items()}
upper_map ==
    [k \in {upper(n) : n \in DOMAIN STATE_TO_CODE} |->
        STATE_TO_CODE[CHOOSE n \in DOMAIN STATE_TO_CODE : upper(n) = k]]

\* A slip of to_state_code: the upper-case tier is left out.
to_state_code_title_only(s) ==
    IF s = None THEN None
    ELSE LET s1     == strip(s)
             s_norm == join_split(strip(replace(s1, "_", " ")))
         IN  IF Len(s1) = 2 /\ isalpha(s1) THEN upper(s1)
             ELSE IF title(s_norm) \in DOMAIN STATE_TO_CODE
                  THEN STATE_TO_CODE[title(s_norm)]
                  ELSE None

\* A slip of to_state_code: the shortcut takes any two characters.
to_state_code_any_two(s) ==
    IF s = None THEN None
    ELSE LET s1     == strip(s)
             s_norm == join_split(strip(replace(s1, "_", " ")))
         IN  IF Len(s1) = 2 THEN upper(s1)
             ELSE IF title(s_norm) \in DOMAIN STATE_TO_CODE
                  THEN STATE_TO_CODE[title(s_norm)]
                  ELSE IF upper(s_norm) \in DOMAIN upper_map
                       THEN upper_map[upper(s_norm)]
                       ELSE None

to_state_code(s) ==
    IF s = None THEN None
    ELSE LET s1      == strip(s)
             s_norm  == join_split(strip(replace(s1, "_", " ")))
             s_title == title(s_norm)
             s_upper == upper(s_norm)
         IN  IF Len(s1) = 2 /\ isalpha(s1) THEN upper(s1)
             ELSE IF s_title \in DOMAIN STATE_TO_CODE
                  THEN STATE_TO_CODE[s_title]
                  ELSE IF s_upper \in DOMAIN upper_map
                       THEN upper_map[s_upper]
                       ELSE None

(***************************************************************************)
(* Program constants.  Relation names are Python strs.                     *)
(***************************************************************************)
PREFERRED_SOURCE ==
    <<"v","_","s","t","a","t","e","_","y","e","a","r","_",
      "m","e","t","r","i","c","s">>

FALLBACK_SOURCE == <<"s","t","a","t","e","s","_","a","l","l">>

NATIONAL_SUMMARY ==
    <<"v","_","n","a","t","i","o","n","a","l","_","s","u","m","m","a","r","y">>

NEW_YORK == <<"N","E","W","_","Y","O","R","K">>

\* @st.cache_data(ttl=...) of athena_df, pick_source, get_states and
\* has_table_or_view, in seconds
TTL_ATHENA == 900

TTL_PICK_SOURCE == 3600

TTL_GET_STATES == 3600

TTL_HAS_TABLE == 3600

\* .head(10) of the two leaderboards
HEAD == 10

\* str.lower()
lower(str) == [i \in 1..Len(str) |-> lower1(str[i])]

(***************************************************************************)
(* Values of a result cell.  SQL NULL is the empty tuple; a number is the  *)
(* fraction <<n, d>> in lowest terms with d > 0 (AVG and mean() leave the  *)
(* integers); a year is <<y>>.                                             *)
(***************************************************************************)
NULL == <<>>

Num(n) == <<n, 1>>

Yr(y) == <<y>>

Abs(n) == IF n < 0 THEN -n ELSE n

RECURSIVE Gcd(_, _)
Gcd(a, b) == IF b = 0 THEN a ELSE Gcd(b, a % b)

Frac(n, d) ==
    LET g == Gcd(Abs(n), d)
    IN  IF g = 0 THEN <<0, 1>> ELSE <<n \div g, d \div g>>

FracLess(a, b) == a[1] * b[2] < b[1] * a[2]

(***************************************************************************)
(* Python floats.  A float is an IEEE double, held exactly as sign,        *)
(* integer part and binary fraction; the fraction is a sequence of limbs   *)
(* of LIMB_BITS bits, most significant first, without trailing zero limbs. *)
(* Integer parts stay below 2^31 and the denominators of cells below 2^16. *)
(***************************************************************************)
LIMB_BITS == 15

BASE == 32768

\* Limbs computed of a quotient before the rest counts as a sticky bit; a
\* value of at least 2^-16 has its 53 bits and the next one within 70 bits
FRAC_LIMBS == 6

\* Bits of the significand of a double
SIGNIFICAND == 53

RECURSIVE Pow2(_)
Pow2(k) == IF k = 0 THEN 1 ELSE 2 * Pow2(k - 1)

\* int.bit_length()
RECURSIVE BitLen(_)
BitLen(n) == IF n = 0 THEN 0 ELSE 1 + BitLen(n \div 2)

RECURSIVE Trim(_)
Trim(fr) ==
    IF fr # <<>> /\ fr[Len(fr)] = 0 THEN Trim(SubSeq(fr, 1, Len(fr) - 1))
    ELSE fr

\* Zero bits before the first one bit of a fraction that is not zero
RECURSIVE LeadingZeros(_)
LeadingZeros(fr) ==
    IF fr = <<>> THEN 0
    ELSE IF Head(fr) = 0 THEN LIMB_BITS + LeadingZeros(Tail(fr))
    ELSE LIMB_BITS - BitLen(Head(fr))

Limb(fr, j) == IF j <= Len(fr) THEN fr[j] ELSE 0

Padded(fr, n) == [j \in 1..n |-> Limb(fr, j)]

Zero == [neg |-> FALSE, int |-> 0, frac |-> <<>>]

\* fr with c added at its last limb: <<carry out of the first limb, limbs>>
RECURSIVE Carry(_, _)
Carry(fr, c) ==
    IF fr = <<>> THEN <<c, <<>>>>
    ELSE LET n  == Len(fr)
             v  == fr[n] + c
             up == Carry(SubSeq(fr, 1, n - 1), v \div BASE)
         IN  <<up[1], Append(up[2], v % BASE)>>

\* The double nearest to int + fr (+ a nonzero rest below fr when sticky),
\* ties to the even significand
Round53(neg, int, fr, sticky) ==
    LET t == Trim(fr)
    IN  IF int = 0 /\ t = <<>> THEN Zero
        ELSE
        LET p     == IF int > 0 THEN SIGNIFICAND - BitLen(int)
                     ELSE SIGNIFICAND + LeadingZeros(t)
            i     == ((p - 1) \div LIMB_BITS) + 1
            o     == ((p - 1) % LIMB_BITS) + 1
            unit  == Pow2(LIMB_BITS - o)
            cut   == Limb(t, i) % unit
            low   == IF unit >= 2 THEN cut ELSE Limb(t, i + 1)
            half  == IF unit >= 2 THEN unit \div 2 ELSE BASE \div 2
            from  == IF unit >= 2 THEN i + 1 ELSE i + 2
            later == sticky \/ \E j \in from..Len(t) : t[j] # 0
            odd   == (Limb(t, i) \div unit) % 2 = 1
            up    == low > half \/ (low = half /\ (later \/ odd))
            kept  == [j \in 1..i |-> IF j < i THEN Limb(t, j)
                                     ELSE Limb(t, i) - cut]
            c     == Carry(kept, unit)
        IN  IF up THEN [neg |-> neg, int |-> int + c[1], frac |-> Trim(c[2])]
            ELSE [neg |-> neg, int |-> int, frac |-> Trim(kept)]

\* The first k limbs of r / d for r < d, and whether a rest is left
RECURSIVE DivLimbs(_, _, _)
DivLimbs(r, d, k) ==
    IF r = 0 \/ k = 0 THEN <<r # 0, <<>>>>
    ELSE LET rest == DivLimbs((r * BASE) % d, d, k - 1)
         IN  <<rest[1], <<(r * BASE) \div d>> \o rest[2]>>

\* The float of a cell: the double nearest to the fraction
float(a) ==
    LET n == Abs(a[1])
        q == DivLimbs(n % a[2], a[2], FRAC_LIMBS)
    IN  Round53(a[1] < 0, n \div a[2], q[2], q[1])

\* |x| < |y|
MagLess(x, y) ==
    LET n == IF Len(x.frac) > Len(y.frac) THEN Len(x.frac) ELSE Len(y.frac)
        a == <<x.int>> \o Padded(x.frac, n)
        b == <<y.int>> \o Padded(y.frac, n)
    IN  \E k \in 1..(n + 1) : a[k] < b[k] /\ \A j \in 1..(k - 1) : a[j] = b[j]

\* a + b limb by limb, for a and b of one length: <<carry, limbs>>
RECURSIVE AddLimbs(_, _)
AddLimbs(a, b) ==
    IF a = <<>> THEN <<0, <<>>>>
    ELSE LET rest == AddLimbs(Tail(a), Tail(b))
             v    == Head(a) + Head(b) + rest[1]
         IN  <<v \div BASE, <<v % BASE>> \o rest[2]>>

\* a - b limb by limb, for a and b of one length: <<borrow, limbs>>
RECURSIVE SubLimbs(_, _)
SubLimbs(a, b) ==
    IF a = <<>> THEN <<0, <<>>>>
    ELSE LET rest == SubLimbs(Tail(a), Tail(b))
             v    == Head(a) - Head(b) - rest[1]
         IN  IF v < 0 THEN <<1, <<v + BASE>> \o rest[2]>>
             ELSE <<0, <<v>> \o rest[2]>>

\* |x| - |y| for |x| > |y|, exact
MagSub(x, y) ==
    LET n == IF Len(x.frac) > Len(y.frac) THEN Len(x.frac) ELSE Len(y.frac)
        s == SubLimbs(Padded(x.frac, n), Padded(y.frac, n))
    IN  [int |-> x.int - y.int - s[1], frac |-> s[2]]

\* x + y on floats: the exact sum, rounded to the nearest double
FloatAdd(x, y) ==
    LET n == IF Len(x.frac) > Len(y.frac) THEN Len(x.frac) ELSE Len(y.frac)
        s == AddLimbs(Padded(x.frac, n), Padded(y.frac, n))
    IN  IF x.neg = y.neg
        THEN Round53(x.neg, x.int + y.int + s[1], s[2], FALSE)
        ELSE IF MagLess(y, x)
        THEN Round53(x.neg, MagSub(x, y).int, MagSub(x, y).frac, FALSE)
        ELSE IF MagLess(x, y)
        THEN Round53(y.neg, MagSub(y, x).int, MagSub(y, x).frac, FALSE)
        ELSE Zero

\* x - y on floats
FloatSub(x, y) == FloatAdd(x, [y EXCEPT !.neg = ~y.neg])

\* The first k limbs of (r + fr) / n for r < n, and whether a rest is left
RECURSIVE DivLimbsBy(_, _, _, _)
DivLimbsBy(fr, r, n, k) ==
    IF k = 0 THEN <<r # 0 \/ Trim(fr) # <<>>, <<>>>>
    ELSE LET v    == r * BASE + Limb(fr, 1)
             rest == DivLimbsBy(IF fr = <<>> THEN <<>> ELSE Tail(fr),
                                v % n, n, k - 1)
         IN  <<rest[1], <<v \div n>> \o rest[2]>>

\* x / n on floats for a count n of 1 to 7: the exact quotient, rounded to
\* the nearest double
FloatDiv(x, n) ==
    LET q == DivLimbsBy(x.frac, x.int % n, n, Len(x.frac) + 5)
    IN  Round53(x.neg, x.int \div n, q[2], q[1])

\* The sum of a column of floats, added in order from the first cell on as
\* numpy adds fewer than 8 values
RECURSIVE FloatSum(_)
FloatSum(cells) ==
    IF Len(cells) = 1 THEN float(cells[1])
    ELSE FloatAdd(FloatSum(SubSeq(cells, 1, Len(cells) - 1)),
                  float(cells[Len(cells)]))

DigitChars == <<"0", "1", "2", "3", "4", "5", "6", "7", "8", "9">>

\* The decimal digits of n >= 0
RECURSIVE Digits(_)
Digits(n) ==
    IF n < 10 THEN <<DigitChars[n + 1]>>
    ELSE Digits(n \div 10) \o <<DigitChars[(n % 10) + 1]>>

\* The digits of n >= 0 with a comma between groups of three
RECURSIVE Grouped(_)
Grouped(n) ==
    IF n < 1000 THEN Digits(n)
    ELSE Grouped(n \div 1000) \o <<",">>
            \o <<DigitChars[((n \div 100) % 10) + 1],
                 DigitChars[((n \div 10) % 10) + 1],
                 DigitChars[(n % 10) + 1]>>

\* 100 times the fraction fr: <<integer part, the next limb, any bit below>>
RECURSIVE Hundredths(_)
Hundredths(fr) ==
    IF fr = <<>> THEN <<0, 0, FALSE>>
    ELSE LET t == Hundredths(Tail(fr))
             n == t[1] + 100 * Head(fr)
         IN  <<n \div BASE, n % BASE, t[2] # 0 \/ t[3]>>

\* f"{x:,.2f}" of a float: its exact decimal expansion rounded to two places,
\* ties to even; the sign of a negative value is kept when it rounds to 0.00
Fmt2(x) ==
    LET h     == Hundredths(x.frac)
        half  == BASE \div 2
        up    == \/ h[2] > half
                 \/ h[2] = half /\ (h[3] \/ h[1] % 2 = 1)
        cents == IF up THEN h[1] + 1 ELSE h[1]
        w     == IF cents = 100 THEN x.int + 1 ELSE x.int
        cc    == cents % 100
    IN  (IF x.neg THEN <<"-">> ELSE <<>>)
           \o Grouped(w) \o <<".">>
           \o <<DigitChars[(cc \div 10) + 1], DigitChars[(cc % 10) + 1]>>

RECURSIVE SumFrac(_)
SumFrac(seq) ==
    IF seq = <<>> THEN <<0, 1>>
    ELSE LET h == Head(seq)
             t == SumFrac(Tail(seq))
         IN  Frac(h[1] * t[2] + t[1] * h[2], h[2] * t[2])

\* Stable sort of seq by the strict weak order Less: ties keep their order
SortBy(seq, Less(_, _)) ==
    LET n       == Len(seq)
        rank(i) == Cardinality({j \in 1..n :
                      \/ Less(seq[j], seq[i])
                      \/ (~Less(seq[i], seq[j]) /\ j < i)}) + 1
    IN  [k \in 1..n |-> seq[CHOOSE i \in 1..n : rank(i) = k]]

\* First occurrences of the values of seq, in order
RECURSIVE Distinct(_)
Distinct(seq) ==
    IF seq = <<>> THEN <<>>
    ELSE LET n    == Len(seq)
             init == Distinct(SubSeq(seq, 1, n - 1))
         IN  IF \E i \in 1..Len(init) : init[i] = seq[n] THEN init
             ELSE Append(init, seq[n])

Column(seq, F(_)) == [i \in 1..Len(seq) |-> F(seq[i])]

\* Code point order of the characters the model uses
CharOrder ==
    <<"\t", " ", "1">> \o Uppers \o <<"_">> \o Lowers

Ord(c) == CHOOSE i \in 1..Len(CharOrder) : CharOrder[i] = c

RECURSIVE StrLess(_, _)
StrLess(a, b) ==
    IF b = <<>> THEN FALSE
    ELSE IF a = <<>> THEN TRUE
    ELSE IF Head(a) = Head(b) THEN StrLess(Tail(a), Tail(b))
    ELSE Ord(Head(a)) < Ord(Head(b))

\* ORDER BY ... ASC of a nullable year: NULLs last
YearLess(a, b) == a # NULL /\ (b = NULL \/ a[1] < b[1])

(***************************************************************************)
(* Metric Expression Registry (lines 61-80, 93).                           *)
(***************************************************************************)
\* list(metric_options.keys()), the same five labels in both branches
MetricLabels ==
    <<"Expenditure per student", "Revenue per student", "Surplus / Deficit",
      "Total Expenditure", "Total Revenue">>

\* A slip of the registry: the fallback branch of metric_options is a copy of
\* the view branch.
metric_options_copied(src) ==
    ("Expenditure per student" :> "expenditure_per_student") @@
    ("Revenue per student" :> "revenue_per_student") @@
    ("Surplus / Deficit" :> "surplus_deficit") @@
    ("Total Expenditure" :> "total_expenditure") @@
    ("Total Revenue" :> "total_revenue")

metric_options(src) ==
    IF src = PREFERRED_SOURCE
    THEN ("Expenditure per student" :> "expenditure_per_student") @@
         ("Revenue per student" :> "revenue_per_student") @@
         ("Surplus / Deficit" :> "surplus_deficit") @@
         ("Total Expenditure" :> "total_expenditure") @@
         ("Total Revenue" :> "total_revenue")
    ELSE ("Expenditure per student" :> "total_expenditure / NULLIF(enroll, 0)") @@
         ("Revenue per student" :> "total_revenue / NULLIF(enroll, 0)") @@
         ("Surplus / Deficit" :> "total_revenue - total_expenditure") @@
         ("Total Expenditure" :> "total_expenditure") @@
         ("Total Revenue" :> "total_revenue")

\* The year expression of every query of the run
year_expr(src) ==
    IF src = PREFERRED_SOURCE THEN "year" ELSE "CAST(year AS integer)"

\* nat_expr of the v_national_summary branch
nat_expr(label) ==
    IF label = "Expenditure per student" THEN "national_spend_per_student"
    ELSE IF label = "Revenue per student"
         THEN "national_revenue / NULLIF(national_enrollment, 0)"
    ELSE IF label = "Surplus / Deficit"
         THEN "national_revenue - national_expenditure"
    ELSE IF label = "Total Expenditure" THEN "national_expenditure"
    ELSE IF label = "Total Revenue" THEN "national_revenue"
    ELSE "national_spend_per_student"

(***************************************************************************)
(* Query text.  A query string is the record of the parts the f-strings    *)
(* interpolate; two strings are equal exactly when their records are, and  *)
(* that is what athena_df's cache compares.                                *)
(***************************************************************************)
Sql(kind, from, yexpr, expr, yr, st) ==
    [q |-> kind, from |-> from, year_expr |-> yexpr, expr |-> expr,
     year |-> yr, state |-> st]

\* q of pick_source
tables_sql == Sql("tables", <<>>, "", "", 0, <<>>)

\* q of has_table_or_view(name)
has_sql(nm) == Sql("has_table", nm, "", "", 0, <<>>)

years_sql(src) == Sql("years", src, year_expr(src), "", 0, <<>>)

\* q, the rows of the selected year
data_sql(src, expr, yr) == Sql("data", src, year_expr(src), expr, yr, <<>>)

\* q_states of get_states
states_sql(src) == Sql("states", src, "", "", 0, <<>>)

state_trend_sql(src, expr, st) ==
    Sql("state_trend", src, year_expr(src), expr, 0, st)

national_sql(src, label, expr, use_nat) ==
    IF use_nat
    THEN Sql("national", NATIONAL_SUMMARY, "year", nat_expr(label), 0, <<>>)
    ELSE Sql("national_avg", src, year_expr(src), expr, 0, <<>>)

(***************************************************************************)
(* The query executor: what Athena returns for a query over the catalog    *)
(* cat and the relations rel.  A row of a per-state relation is            *)
(* [state, year, metric], metric being the value of the selected           *)
(* expression; a row of v_national_summary is [year, metric].  ORDER BY    *)
(* and DISTINCT keep the stored order among equal keys.                    *)
(***************************************************************************)
AllRelations == <<FALLBACK_SOURCE, PREFERRED_SOURCE, NATIONAL_SUMMARY>>

\* CAST(year AS integer) of an integral year
CastInteger(y) == y

YearOf(sql, r) ==
    IF sql.year_expr = "year" THEN r.year ELSE CastInteger(r.year)

\* AVG(expr) ... GROUP BY year: one row per distinct year, NULLs ignored
GroupAvg(sql, rows) ==
    LET ys == Distinct(Column(rows, LAMBDA r : YearOf(sql, r)))
        avg(y) ==
            LET vals == SelectSeq(Column(SelectSeq(rows,
                                     LAMBDA r : YearOf(sql, r) = y),
                                   LAMBDA r : r.metric),
                                  LAMBDA m : m # NULL)
            IN  IF vals = <<>> THEN NULL
                ELSE LET t == SumFrac(vals)
                     IN  Frac(t[1], t[2] * Len(vals))
    IN  [i \in 1..Len(ys) |-> [year |-> ys[i], metric |-> avg(ys[i])]]

ByYear(rows) == SortBy(rows, LAMBDA a, b : YearLess(a.year, b.year))

Execute(sql, cat, rel) ==
    IF sql.q = "tables"
    THEN [ok |-> TRUE, rows |-> SelectSeq(AllRelations, LAMBDA t : t \in cat)]
    ELSE IF sql.q = "has_table"
    THEN [ok |-> TRUE,
          rows |-> SelectSeq(AllRelations,
                     LAMBDA t : t \in cat /\ lower(t) = lower(sql.from))]
    ELSE IF sql.from \notin cat
    THEN [ok |-> FALSE, rows |-> <<>>]
    ELSE LET rows == rel[sql.from]
         IN  IF sql.q = "years"
             THEN [ok |-> TRUE, rows |->
                     SortBy(Distinct(Column(rows, LAMBDA r : YearOf(sql, r))),
                            YearLess)]
             ELSE IF sql.q = "data"
             THEN [ok |-> TRUE, rows |->
                     Column(SelectSeq(rows,
                              LAMBDA r : YearOf(sql, r) = Yr(sql.year)),
                            LAMBDA r : [state |-> r.state,
                                        year |-> YearOf(sql, r),
                                        metric |-> r.metric])]
             ELSE IF sql.q = "states"
             THEN [ok |-> TRUE, rows |->
                     SortBy(Distinct(Column(rows, LAMBDA r : r.state)),
                            LAMBDA a, b :
                               a # None /\ (b = None \/ StrLess(a, b)))]
             ELSE IF sql.q = "state_trend"
             THEN [ok |-> TRUE, rows |->
                     ByYear(Column(SelectSeq(rows,
                                     LAMBDA r : r.state = sql.state),
                                   LAMBDA r : [year |-> YearOf(sql, r),
                                               metric |-> r.metric]))]
             ELSE IF sql.q = "national"
             THEN [ok |-> TRUE, rows |-> ByYear(rows)]
             ELSE [ok |-> TRUE, rows |-> ByYear(GroupAvg(sql, rows))]

(***************************************************************************)
(* pandas on the query results.                                            *)
(***************************************************************************)
\* U+2014, the dash of the KPI cards, written by its code point
EM_DASH == "U+2014"

\* The "—" the KPI cards show instead of a number
Placeholder == <<EM_DASH>>

\* A slip of the drop: rows whose state_code is None are kept.
dropna_state_code_kept(frame) == frame

\* df.dropna(subset=["state_code"])
dropna_state_code(frame) ==
    SelectSeq(frame, LAMBDA r : r.state_code # None)

\* df["state_code"] = df["state"].apply(to_state_code)
apply_state_code(frame) ==
    Column(frame, LAMBDA r : [state |-> r.state, year |-> r.year,
                              metric |-> r.metric,
                              state_code |-> to_state_code(r.state)])

\* The non-null cells of a column: what mean(), max(), min() and notna() see
notna(cells) == SelectSeq(cells, LAMBDA m : m # NULL)

\* df["metric"].mean(), of a column with a non-null cell: the float sum of
\* the non-null cells over their count
mean(cells) ==
    LET v == notna(cells)
    IN  FloatDiv(FloatSum(v), Len(v))

max(cells) ==
    LET v == notna(cells)
    IN  v[CHOOSE i \in 1..Len(v) : \A j \in 1..Len(v) : ~FracLess(v[i], v[j])]

min(cells) ==
    LET v == notna(cells)
    IN  v[CHOOSE i \in 1..Len(v) : \A j \in 1..Len(v) : ~FracLess(v[j], v[i])]

\* df["state"].nunique(): distinct non-null values
nunique(cells) == Cardinality({cells[i] : i \in 1..Len(cells)} \ {None})

\* The four KPI cards (lines 147-152)
kpi_cards(frame) ==
    LET col == Column(frame, LAMBDA r : r.metric)
        any == notna(col) # <<>>
    IN  [states |-> nunique(Column(frame, LAMBDA r : r.state)),
         avg |-> IF any THEN Fmt2(mean(col)) ELSE Placeholder,
         max |-> IF any THEN Fmt2(float(max(col))) ELSE Placeholder,
         min |-> IF any THEN Fmt2(float(min(col))) ELSE Placeholder]

head(seq, n) == SubSeq(seq, 1, IF Len(seq) < n THEN Len(seq) ELSE n)

StateMetric(frame) ==
    Column(frame, LAMBDA r : [state |-> r.state, metric |-> r.metric])

\* df.sort_values("metric", ascending=...).head(10)[["state", "metric"]]:
\* NaN last either way
leaderboard(frame, ascending) ==
    head(StateMetric(SortBy(frame, LAMBDA a, b :
            a.metric # NULL /\
            (b.metric = NULL \/
             IF ascending THEN FracLess(a.metric, b.metric)
                          ELSE FracLess(b.metric, a.metric)))), HEAD)

\* athena_df(years_sql)["year"].astype(int).tolist(), then min() and max():
\* a NULL year or an empty list raises
years_ok(rows) == rows # <<>> /\ \A i \in 1..Len(rows) : rows[i] # NULL

years_list(rows) == [i \in 1..Len(rows) |-> rows[i][1]]

MinOf(seq) == CHOOSE x \in {seq[i] : i \in 1..Len(seq)} :
                 \A i \in 1..Len(seq) : x <= seq[i]

MaxOf(seq) == CHOOSE x \in {seq[i] : i \in 1..Len(seq)} :
                 \A i \in 1..Len(seq) : x >= seq[i]

\* selected_state.replace("_", " ").title(), the label of the state series
series_label(st) == title(replace(st, "_", " "))

National == <<"N","a","t","i","o","n","a","l">>

WithSeries(frame, label) ==
    Column(frame, LAMBDA r : [year |-> r.year, metric |-> r.metric,
                              series |-> label])

\* pd.concat([state_trend, national_trend]).dropna(subset=["year", "metric"])
reconcile(st_frame, nat_frame, st) ==
    SelectSeq(WithSeries(st_frame, series_label(st))
                \o WithSeries(nat_frame, National),
              LAMBDA r : r.year # NULL /\ r.metric # NULL)

\* float(frame[frame["year"].astype(int) == yr]["metric"].iloc[0]).
\* astype(int) raises on a NULL year, iloc[0] on no row, and float() on the
\* None of a column that holds only NULLs (object dtype); the NULL of a
\* column that also holds numbers is NaN (float dtype).
year_val(frame, yr) ==
    LET hit == SelectSeq(frame, LAMBDA r : r.year = Yr(yr))
    IN  IF \E i \in 1..Len(frame) : frame[i].year = NULL
        THEN [kind |-> "raise"]
        ELSE IF hit = <<>> THEN [kind |-> "raise"]
        ELSE IF hit[1].metric # NULL
             THEN [kind |-> "value", v |-> hit[1].metric]
        ELSE IF \A i \in 1..Len(frame) : frame[i].metric = NULL
             THEN [kind |-> "raise"]
        ELSE [kind |-> "nan"]

\* The KPI delta (lines 281-288): omitted when the try block raises, else the
\* caption shows the difference, which is nan when either operand is
kpi_delta(st_frame, nat_frame, yr) ==
    LET a == year_val(st_frame, yr)
        b == year_val(nat_frame, yr)
    IN  IF a.kind = "raise" \/ b.kind = "raise" THEN [kind |-> "omitted"]
        ELSE IF a.kind = "nan" \/ b.kind = "nan" THEN [kind |-> "nan"]
        ELSE [kind |-> "value", text |-> Fmt2(FloatSub(float(a.v), float(b.v)))]

\* Line 51: the relation pick_source returns for the catalog listing
resolve(listing) ==
    IF lower(PREFERRED_SOURCE) \in {lower(listing[i]) : i \in 1..Len(listing)}
    THEN PREFERRED_SOURCE ELSE FALLBACK_SOURCE

(***************************************************************************)
(* Bounds of the model.                                                    *)
(***************************************************************************)
\* Browser sessions served by the one Streamlit process
NumSessions == 2

\* The clock advances in steps of TTL_ATHENA, this many times at most
MaxTicks == 4

\* Rows a relation of the warehouse holds at most
MaxRows == 2

\* Letter casings tried on a state name: every pattern of this period
CasePeriod == 2

\* Longest run of separators put between the words of a state name
MaxSepLen == 2

\* Longest run of whitespace put before and after a state name
MaxPad == 1

Sessions == 1..NumSessions

(***************************************************************************)
(* State.                                                                  *)
(***************************************************************************)
VARIABLES
    now,              \* wall clock, in seconds
    tables,           \* information_schema.tables of DB: the relations present
    relation,         \* the rows each relation holds
    c_athena,         \* st.cache_data store of athena_df, by query text
    c_pick_source,    \* st.cache_data store of pick_source, by NoArgs
    c_get_states,     \* st.cache_data store of get_states, by NoArgs
    c_has_table,      \* st.cache_data store of has_table_or_view, by name
    pc,               \* where the script run of each session stands
    pending,          \* the frame athena_df returned to a cached function
                      \* of the session that has not returned yet
    SOURCE, years, metric_label, year, metric_expr,
    df, kpi, top, bottom,
    states_list, selected_state, use_national,
    state_trend, national_trend, trend, delta,
    first_source,     \* history: SOURCE of the first run of the session
    source_by,        \* history: the session whose lookup produced SOURCE
    national_by,      \* history: the session whose lookup produced use_national
    name, identifier, stage, state_code   \* the normalizer on one identifier

envVars == <<now, tables, relation>>

cacheVars == <<c_athena, c_pick_source, c_get_states, c_has_table>>

pickVars == <<SOURCE, first_source, source_by>>

widgetVars == <<years, metric_label, year, metric_expr>>

mapVars == <<df, kpi, top, bottom>>

drillVars == <<states_list, selected_state>>

nationalVars == <<use_national, national_by>>

trendVars == <<state_trend, national_trend, trend, delta>>

normVars == <<name, identifier, stage, state_code>>

vars == <<envVars, cacheVars, pc, pending, pickVars, widgetVars, mapVars,
          drillVars, nationalVars, trendVars, normVars>>

(***************************************************************************)
(* st.cache_data: one store per decorated function, shared by every        *)
(* session of the process, keyed by the call's arguments alone.  An entry  *)
(* is served until ttl seconds after it was stored.                        *)
(***************************************************************************)
\* The arguments of a call of a function that takes none
NoArgs == <<>>

Entry(val, ttl, by) == [val |-> val, exp |-> now + ttl, by |-> by]

Live(store, key) == key \in DOMAIN store /\ now < store[key].exp

\* athena_df(sql): the cached frame, or the executor's answer
athena_df(sql) ==
    IF Live(c_athena, sql) THEN [ok |-> TRUE, rows |-> c_athena[sql].val]
    ELSE Execute(sql, tables, relation)

\* The store of athena_df after athena_df(sql): a raised exception stores
\* nothing
athena_stored(sql) ==
    IF Live(c_athena, sql) \/ ~Execute(sql, tables, relation).ok THEN c_athena
    ELSE (sql :> Entry(Execute(sql, tables, relation).rows, TTL_ATHENA, 0))
            @@ c_athena

\* The entries of store still served at time t; the others are never
\* served again
Unexpired(store, t) ==
    [k \in {j \in DOMAIN store : t < store[j].exp} |-> store[k]]

\* The values of the script's variables before a run assigns them
Fresh == [u \in Sessions |-> <<>>]

NoKpi == [states |-> 0, avg |-> Placeholder, max |-> Placeholder,
          min |-> Placeholder]

NoDelta == [kind |-> "none"]

\* No call of a cached function is under way
NoPending == [ok |-> FALSE, rows |-> <<>>]

ScriptInit ==
    /\ pending = [u \in Sessions |-> NoPending]
    /\ SOURCE = Fresh /\ first_source = Fresh
    /\ source_by = [u \in Sessions |-> 0]
    /\ years = Fresh
    /\ metric_label = [u \in Sessions |-> ""]
    /\ year = [u \in Sessions |-> 0]
    /\ metric_expr = [u \in Sessions |-> ""]
    /\ df = Fresh /\ top = Fresh /\ bottom = Fresh
    /\ kpi = [u \in Sessions |-> NoKpi]
    /\ states_list = Fresh /\ selected_state = Fresh
    /\ use_national = [u \in Sessions |-> FALSE]
    /\ national_by = [u \in Sessions |-> 0]
    /\ state_trend = Fresh /\ national_trend = Fresh /\ trend = Fresh
    /\ delta = [u \in Sessions |-> NoDelta]

CachesInit ==
    /\ c_athena = <<>> /\ c_pick_source = <<>>
    /\ c_get_states = <<>> /\ c_has_table = <<>>

NormIdle ==
    /\ name = <<>> /\ identifier = <<>> /\ stage = "off" /\ state_code = None

Fail(u) == pc' = [pc EXCEPT ![u] = "failed"]

Goto(u, label) == pc' = [pc EXCEPT ![u] = label]

(***************************************************************************)
(* One run of the script for session u, from one blocking call to the      *)
(* next.  choices is "default" when the widgets keep their initial values  *)
(* and "any" when the user has set them.                                   *)
(***************************************************************************)
\* Line 53, SOURCE = pick_source(): a hit returns the stored relation; a
\* miss runs the body up to the return of athena_df(q) in line 50, which has
\* stored the listing.  pick_source has not returned and stored nothing yet
PickSource(u) ==
    /\ pc[u] = "pick_source"
    /\ IF Live(c_pick_source, NoArgs)
       THEN /\ SOURCE' = [SOURCE EXCEPT ![u] = c_pick_source[NoArgs].val]
            /\ first_source' = [first_source EXCEPT ![u] =
                                  IF @ = <<>> THEN c_pick_source[NoArgs].val
                                  ELSE @]
            /\ source_by' = [source_by EXCEPT ![u] = c_pick_source[NoArgs].by]
            /\ Goto(u, "widgets")
            /\ UNCHANGED <<c_athena, pending>>
       ELSE LET res == athena_df(tables_sql)
            IN  /\ c_athena' = athena_stored(tables_sql)
                /\ pending' = [pending EXCEPT ![u] = res]
                /\ IF res.ok THEN Goto(u, "pick_source_return") ELSE Fail(u)
                /\ UNCHANGED pickVars
    /\ UNCHANGED <<envVars, c_pick_source, c_get_states, c_has_table,
                   widgetVars, mapVars, drillVars, nationalVars, trendVars,
                   normVars>>

\* Lines 50-53: pick_source returns; st.cache_data stores the relation under
\* the time of the return, and the script assigns SOURCE
PickSourceReturn(u) ==
    /\ pc[u] = "pick_source_return"
    /\ LET val == resolve(pending[u].rows)
       IN  /\ SOURCE' = [SOURCE EXCEPT ![u] = val]
           /\ first_source' = [first_source EXCEPT ![u] =
                                 IF @ = <<>> THEN val ELSE @]
           /\ source_by' = [source_by EXCEPT ![u] = u]
           /\ c_pick_source' = (NoArgs :> Entry(val, TTL_PICK_SOURCE, u))
    /\ pending' = [pending EXCEPT ![u] = NoPending]
    /\ Goto(u, "widgets")
    /\ UNCHANGED <<envVars, c_athena, c_get_states, c_has_table, widgetVars,
                   mapVars, drillVars, nationalVars, trendVars, normVars>>

\* Lines 62-93: the registry branch, the years query and the two widgets.
\* st.slider(min_year, max_year, max_year) with min_year = max_year raises in
\* some releases of Streamlit and returns max_year in others: either happens
SelectMetricYear(u, choices) ==
    /\ pc[u] = "widgets"
    /\ LET res == athena_df(years_sql(SOURCE[u]))
           ys  == years_list(res.rows)
       IN  /\ c_athena' = athena_stored(years_sql(SOURCE[u]))
           /\ IF res.ok /\ years_ok(res.rows)
              THEN \/ /\ years' = [years EXCEPT ![u] = ys]
                      /\ \E label \in
                            IF choices = "default" THEN {MetricLabels[1]}
                            ELSE {MetricLabels[i] : i \in 1..Len(MetricLabels)} :
                         \E yr \in
                            IF choices = "default" THEN {MaxOf(ys)}
                            ELSE MinOf(ys)..MaxOf(ys) :
                            /\ metric_label' = [metric_label EXCEPT ![u] = label]
                            /\ year' = [year EXCEPT ![u] = yr]
                            /\ metric_expr' = [metric_expr EXCEPT ![u] =
                                                 metric_options(SOURCE[u])[label]]
                      /\ Goto(u, "map_view")
                   \/ /\ MinOf(ys) = MaxOf(ys)
                      /\ Fail(u)
                      /\ UNCHANGED widgetVars
              ELSE /\ Fail(u)
                   /\ UNCHANGED widgetVars
    /\ UNCHANGED <<envVars, c_pick_source, c_get_states, c_has_table, pickVars,
                   mapVars, drillVars, nationalVars, trendVars, normVars, pending>>

\* Lines 95-177: the rows of the year, their state codes, the drop, the KPI
\* cards and the leaderboards; the map shows df's state_code column
MapView(u) ==
    /\ pc[u] = "map_view"
    /\ LET sql == data_sql(SOURCE[u], metric_expr[u], year[u])
           res == athena_df(sql)
       IN  /\ c_athena' = athena_stored(sql)
           /\ IF res.ok
              THEN LET frame == dropna_state_code(apply_state_code(res.rows))
                   IN  /\ df' = [df EXCEPT ![u] = frame]
                       /\ kpi' = [kpi EXCEPT ![u] = kpi_cards(frame)]
                       /\ top' = [top EXCEPT ![u] = leaderboard(frame, FALSE)]
                       /\ bottom' = [bottom EXCEPT ![u] = leaderboard(frame, TRUE)]
                       /\ Goto(u, "drill_down")
              ELSE /\ Fail(u)
                   /\ UNCHANGED mapVars
    /\ UNCHANGED <<envVars, c_pick_source, c_get_states, c_has_table, pickVars,
                   widgetVars, drillVars, nationalVars, trendVars, normVars, pending>>

\* Line 58: athena_df(q_states)["state"].dropna().tolist()
dropna_tolist(rows) == SelectSeq(rows, LAMBDA x : x # None)

\* Lines 180-183: the "Drill into a state" selector over the state list
SelectState(u, list, choices) ==
    IF list # <<>>
    THEN /\ states_list' = [states_list EXCEPT ![u] = list]
         /\ \E st \in
               IF choices = "default"
               THEN {IF \E i \in 1..Len(list) : list[i] = NEW_YORK
                     THEN NEW_YORK ELSE list[1]}
               ELSE {list[i] : i \in 1..Len(list)} :
               selected_state' = [selected_state EXCEPT ![u] = st]
         /\ Goto(u, "has_table")
    ELSE /\ Fail(u)
         /\ UNCHANGED drillVars

\* Line 179, states_list = get_states(): the store is keyed by NoArgs, the
\* query names the SOURCE of the calling run.  A hit returns the stored list
\* to the selector; a miss runs the body up to the return of
\* athena_df(q_states), which has stored the rows
DrillDown(u, choices) ==
    /\ pc[u] = "drill_down"
    /\ IF Live(c_get_states, NoArgs)
       THEN /\ SelectState(u, c_get_states[NoArgs].val, choices)
            /\ UNCHANGED <<c_athena, pending>>
       ELSE LET res == athena_df(states_sql(SOURCE[u]))
            IN  /\ c_athena' = athena_stored(states_sql(SOURCE[u]))
                /\ pending' = [pending EXCEPT ![u] = res]
                /\ IF res.ok THEN Goto(u, "get_states_return") ELSE Fail(u)
                /\ UNCHANGED drillVars
    /\ UNCHANGED <<envVars, c_pick_source, c_get_states, c_has_table, pickVars,
                   widgetVars, mapVars, nationalVars, trendVars, normVars>>

\* Lines 58 and 179-183: get_states returns; st.cache_data stores the list
\* under the time of the return, and the selector is drawn
GetStatesReturn(u, choices) ==
    /\ pc[u] = "get_states_return"
    /\ c_get_states' =
          (NoArgs :> Entry(dropna_tolist(pending[u].rows), TTL_GET_STATES, u))
    /\ SelectState(u, dropna_tolist(pending[u].rows), choices)
    /\ pending' = [pending EXCEPT ![u] = NoPending]
    /\ UNCHANGED <<envVars, c_athena, c_pick_source, c_has_table, pickVars,
                   widgetVars, mapVars, nationalVars, trendVars, normVars>>

\* Line 213, use_national = has_table_or_view("v_national_summary"): a hit
\* returns the stored answer; a miss runs the body up to the return of
\* athena_df(q) in line 211, which has stored the lookup
HasTableOrView(u) ==
    /\ pc[u] = "has_table"
    /\ IF Live(c_has_table, NATIONAL_SUMMARY)
       THEN /\ use_national' = [use_national EXCEPT ![u] =
                                  c_has_table[NATIONAL_SUMMARY].val]
            /\ national_by' = [national_by EXCEPT ![u] =
                                 c_has_table[NATIONAL_SUMMARY].by]
            /\ Goto(u, "state_trend")
            /\ UNCHANGED <<c_athena, pending>>
       ELSE LET res == athena_df(has_sql(NATIONAL_SUMMARY))
            IN  /\ c_athena' = athena_stored(has_sql(NATIONAL_SUMMARY))
                /\ pending' = [pending EXCEPT ![u] = res]
                /\ IF res.ok THEN Goto(u, "has_table_return") ELSE Fail(u)
                /\ UNCHANGED nationalVars
    /\ UNCHANGED <<envVars, c_pick_source, c_get_states, c_has_table, pickVars,
                   widgetVars, mapVars, drillVars, trendVars, normVars>>

\* Lines 211-213: has_table_or_view returns; st.cache_data stores the answer
\* under the time of the return, and the script assigns use_national
HasTableOrViewReturn(u) ==
    /\ pc[u] = "has_table_return"
    /\ LET val == Len(pending[u].rows) > 0
       IN  /\ use_national' = [use_national EXCEPT ![u] = val]
           /\ national_by' = [national_by EXCEPT ![u] = u]
           /\ c_has_table' =
                 (NATIONAL_SUMMARY :> Entry(val, TTL_HAS_TABLE, u))
    /\ pending' = [pending EXCEPT ![u] = NoPending]
    /\ Goto(u, "state_trend")
    /\ UNCHANGED <<envVars, c_athena, c_pick_source, c_get_states, pickVars,
                   widgetVars, mapVars, drillVars, trendVars, normVars>>

\* Line 259: state_trend = athena_df(state_trend_q)
StateTrend(u) ==
    /\ pc[u] = "state_trend"
    /\ LET sql == state_trend_sql(SOURCE[u], metric_expr[u], selected_state[u])
           res == athena_df(sql)
       IN  /\ c_athena' = athena_stored(sql)
           /\ IF res.ok
              THEN /\ state_trend' = [state_trend EXCEPT ![u] = res.rows]
                   /\ Goto(u, "national_trend")
              ELSE /\ Fail(u)
                   /\ UNCHANGED state_trend
    /\ UNCHANGED <<envVars, c_pick_source, c_get_states, c_has_table, pickVars,
                   widgetVars, mapVars, drillVars, nationalVars,
                   national_trend, trend, delta, normVars, pending>>

\* Lines 260-288: the national series, the merged trend and the KPI delta
NationalTrend(u) ==
    /\ pc[u] = "national_trend"
    /\ LET sql == national_sql(SOURCE[u], metric_label[u], metric_expr[u],
                               use_national[u])
           res == athena_df(sql)
       IN  /\ c_athena' = athena_stored(sql)
           /\ IF res.ok
              THEN /\ national_trend' = [national_trend EXCEPT ![u] = res.rows]
                   /\ trend' = [trend EXCEPT ![u] =
                                  reconcile(state_trend[u], res.rows,
                                            selected_state[u])]
                   /\ delta' = [delta EXCEPT ![u] =
                                  kpi_delta(state_trend[u], res.rows, year[u])]
                   /\ Goto(u, "done")
              ELSE /\ Fail(u)
                   /\ UNCHANGED <<national_trend, trend, delta>>
    /\ UNCHANGED <<envVars, c_pick_source, c_get_states, c_has_table, pickVars,
                   widgetVars, mapVars, drillVars, nationalVars, state_trend,
                   normVars, pending>>

\* A widget interaction or a page reload: Streamlit stops the run of the
\* session where it stands, also between the return of athena_df and the
\* return of the cached function that called it, and runs the script again
\* from the top; the script's variables start over, the stores of
\* st.cache_data do not
Rerun(u) ==
    /\ pc[u] \notin {"off", "pick_source"}
    /\ Goto(u, "pick_source")
    /\ pending' = [pending EXCEPT ![u] = NoPending]
    /\ SOURCE' = [SOURCE EXCEPT ![u] = <<>>]
    /\ years' = [years EXCEPT ![u] = <<>>]
    /\ metric_label' = [metric_label EXCEPT ![u] = ""]
    /\ year' = [year EXCEPT ![u] = 0]
    /\ metric_expr' = [metric_expr EXCEPT ![u] = ""]
    /\ df' = [df EXCEPT ![u] = <<>>]
    /\ kpi' = [kpi EXCEPT ![u] = NoKpi]
    /\ top' = [top EXCEPT ![u] = <<>>]
    /\ bottom' = [bottom EXCEPT ![u] = <<>>]
    /\ states_list' = [states_list EXCEPT ![u] = <<>>]
    /\ selected_state' = [selected_state EXCEPT ![u] = <<>>]
    /\ use_national' = [use_national EXCEPT ![u] = FALSE]
    /\ state_trend' = [state_trend EXCEPT ![u] = <<>>]
    /\ national_trend' = [national_trend EXCEPT ![u] = <<>>]
    /\ trend' = [trend EXCEPT ![u] = <<>>]
    /\ delta' = [delta EXCEPT ![u] = NoDelta]
    /\ UNCHANGED <<envVars, cacheVars, first_source, source_by, national_by,
                   normVars>>

(***************************************************************************)
(* The environment: time passes, and views are created and dropped.        *)
(***************************************************************************)
Tick ==
    /\ now + TTL_ATHENA <= MaxTicks * TTL_ATHENA
    /\ now' = now + TTL_ATHENA
    /\ c_athena' = Unexpired(c_athena, now')
    /\ c_pick_source' = Unexpired(c_pick_source, now')
    /\ c_get_states' = Unexpired(c_get_states, now')
    /\ c_has_table' = Unexpired(c_has_table, now')
    /\ UNCHANGED <<tables, relation, pc, pickVars, widgetVars, mapVars,
                   drillVars, nationalVars, trendVars, normVars, pending>>

CreateView(v) ==
    /\ v \notin tables
    /\ tables' = tables \cup {v}
    /\ UNCHANGED <<now, relation, cacheVars, pc, pickVars, widgetVars, mapVars,
                   drillVars, nationalVars, trendVars, normVars, pending>>

DropView(v) ==
    /\ v \in tables
    /\ tables' = tables \ {v}
    /\ UNCHANGED <<now, relation, cacheVars, pc, pickVars, widgetVars, mapVars,
                   drillVars, nationalVars, trendVars, normVars, pending>>

(***************************************************************************)
(* Spec: one session through its reruns, over a warehouse whose catalog    *)
(* changes while the clock runs.  The view and the table hold different    *)
(* states, so that a state list shows which relation it was read from.     *)
(***************************************************************************)
DODEA == <<"D","O","D","E","A">>

Row(st, yr, m) == [state |-> st, year |-> yr, metric |-> m]

NatRow(yr, m) == [year |-> yr, metric |-> m]

Views == {PREFERRED_SOURCE, NATIONAL_SUMMARY}

Warehouse ==
    (FALLBACK_SOURCE :> <<Row(NEW_YORK, Yr(2014), Num(10)),
                          Row(DODEA, Yr(2015), Num(30)),
                          Row(NEW_YORK, Yr(2015), Num(10))>>) @@
    (PREFERRED_SOURCE :> <<Row(NEW_YORK, Yr(2014), Num(10)),
                           Row(NEW_YORK, Yr(2015), Num(10))>>) @@
    (NATIONAL_SUMMARY :> <<NatRow(Yr(2014), Num(20)),
                           NatRow(Yr(2015), Num(20))>>)

\* The session a single-session specification follows
FirstSession == CHOOSE u \in Sessions : \A w \in Sessions : u <= w

OneSession ==
    [u \in Sessions |-> IF u = FirstSession THEN "pick_source" ELSE "off"]

Init ==
    /\ now = 0
    /\ \E vs \in SUBSET Views : tables = {FALLBACK_SOURCE} \cup vs
    /\ relation = Warehouse
    /\ CachesInit
    /\ pc = OneSession
    /\ ScriptInit
    /\ NormIdle

Next ==
    \/ \E u \in {FirstSession} :
          \/ PickSource(u)
          \/ PickSourceReturn(u)
          \/ SelectMetricYear(u, "default")
          \/ MapView(u)
          \/ DrillDown(u, "default")
          \/ GetStatesReturn(u, "default")
          \/ HasTableOrView(u)
          \/ HasTableOrViewReturn(u)
          \/ StateTrend(u)
          \/ NationalTrend(u)
          \/ Rerun(u)
    \/ Tick
    \/ \E v \in Views : CreateView(v) \/ DropView(v)

Spec == Init /\ [][Next]_vars

(***************************************************************************)
(* SpecShared: every session of the process runs the script once, within   *)
(* one TTL window, while views are created and dropped.                    *)
(***************************************************************************)
InitShared ==
    /\ now = 0
    /\ \E vs \in SUBSET Views : tables = {FALLBACK_SOURCE} \cup vs
    /\ relation = Warehouse
    /\ CachesInit
    /\ pc = [u \in Sessions |-> "pick_source"]
    /\ ScriptInit
    /\ NormIdle

NextShared ==
    \/ \E u \in Sessions :
          \/ PickSource(u)
          \/ PickSourceReturn(u)
          \/ SelectMetricYear(u, "default")
          \/ MapView(u)
          \/ DrillDown(u, "default")
          \/ GetStatesReturn(u, "default")
          \/ HasTableOrView(u)
          \/ HasTableOrViewReturn(u)
          \/ StateTrend(u)
          \/ NationalTrend(u)
    \/ \E v \in Views : CreateView(v) \/ DropView(v)

SpecShared == InitShared /\ [][NextShared]_vars

(***************************************************************************)
(* SpecMap: the map half of one run (lines 53-177) over every relation     *)
(* that holds the 2014 row of New York and at most MaxRows rows drawn from *)
(* RowPool, for every metric and year the widgets offer.                   *)
(***************************************************************************)
\* All sequences of m to n elements of the set S
SeqsOf(S, m, n) == UNION {[1..k -> S] : k \in m..n}

\* The row every drawn relation starts with
Anchor == <<Row(NEW_YORK, Yr(2014), Num(10))>>

RowPool ==
    {Row(st, yr, m) : st \in {NEW_YORK, DODEA},
                      yr \in {Yr(2015), Yr(2016)},
                      m \in {NULL, Num(-5), Num(30)}}

\* The relation the run reads holds rows, the others nothing
Holding(src, rows, nat) ==
    [t \in {FALLBACK_SOURCE, PREFERRED_SOURCE, NATIONAL_SUMMARY} |->
        IF t = src THEN rows ELSE IF t = NATIONAL_SUMMARY THEN nat ELSE <<>>]

InitMap ==
    /\ now = 0
    /\ \E vs \in SUBSET {PREFERRED_SOURCE} :
       \E rows \in SeqsOf(RowPool, 0, MaxRows) :
          /\ tables = {FALLBACK_SOURCE} \cup vs
          /\ relation = Holding(IF PREFERRED_SOURCE \in vs THEN PREFERRED_SOURCE
                                ELSE FALLBACK_SOURCE, Anchor \o rows, <<>>)
    /\ CachesInit
    /\ pc = OneSession
    /\ ScriptInit
    /\ NormIdle

NextMap ==
    \/ PickSource(FirstSession)
    \/ PickSourceReturn(FirstSession)
    \/ SelectMetricYear(FirstSession, "any")
    \/ MapView(FirstSession)

SpecMap == InitMap /\ [][NextMap]_vars

(***************************************************************************)
(* SpecTrend: one whole run over every per-state relation that holds the   *)
(* 2014 row of New York and 1 to MaxRows rows drawn from TrendPool, and    *)
(* every v_national_summary of at most MaxRows rows drawn from             *)
(* NationalPool, for every choice the three widgets offer.                 *)
(***************************************************************************)
TrendPool ==
    {Row(st, yr, m) : st \in {NEW_YORK, DODEA},
                      yr \in {Yr(2015), Yr(2016)},
                      m \in {NULL, Num(30)}}

\* 1183/40 = 29.575 is no double: 30 - 29.575 is computed as
\* 0.4250000000000007 and shown as 0.43
NationalPool ==
    {NatRow(yr, m) : yr \in {Yr(2015), Yr(2016)},
                     m \in {NULL, Num(20), <<1183, 40>>}}

InitTrend ==
    /\ now = 0
    /\ \E vs \in SUBSET Views :
       \E rows \in SeqsOf(TrendPool, 1, MaxRows) :
       \E nat \in IF NATIONAL_SUMMARY \in vs
                  THEN SeqsOf(NationalPool, 0, MaxRows) ELSE {<<>>} :
          /\ tables = {FALLBACK_SOURCE} \cup vs
          /\ relation = Holding(IF PREFERRED_SOURCE \in vs THEN PREFERRED_SOURCE
                                ELSE FALLBACK_SOURCE, Anchor \o rows, nat)
    /\ CachesInit
    /\ pc = OneSession
    /\ ScriptInit
    /\ NormIdle

NextTrend ==
    \/ PickSource(FirstSession)
    \/ PickSourceReturn(FirstSession)
    \/ SelectMetricYear(FirstSession, "any")
    \/ MapView(FirstSession)
    \/ DrillDown(FirstSession, "any")
    \/ GetStatesReturn(FirstSession, "any")
    \/ HasTableOrView(FirstSession)
    \/ HasTableOrViewReturn(FirstSession)
    \/ StateTrend(FirstSession)
    \/ NationalTrend(FirstSession)

SpecTrend == InitTrend /\ [][NextTrend]_vars

(***************************************************************************)
(* SpecNorm: to_state_code on identifiers built from a name: its letters   *)
(* recased, its spaces replaced by runs of separators, whitespace put      *)
(* around it.  The names are the 51 keys of STATE_TO_CODE and OtherNames.  *)
(***************************************************************************)
OtherNames ==
    {<<"N","Y">>, <<"n","y">>, <<"z","z">>, <<"a","1">>, <<"_","_">>,
     DODEA, <<"N","a","t","i","o","n","a","l">>,
     <<"P","u","e","r","t","o"," ","R","i","c","o">>,
     <<"N","e","w","Y","o","r","k">>, <<>>,
     <<"é","è">>, <<"ß","a">>}

Names == DOMAIN STATE_TO_CODE \cup OtherNames

\* The letters of str in the casing pattern mask, repeated along str
Recased(str, mask) ==
    [i \in 1..Len(str) |->
        IF mask[((i - 1) % CasePeriod) + 1] THEN upper1(str[i])
        ELSE lower1(str[i])]

\* str with each of its spaces replaced by the run sep
RECURSIVE Respaced(_, _)
Respaced(str, sep) ==
    IF str = <<>> THEN <<>>
    ELSE (IF Head(str) = " " THEN sep ELSE <<Head(str)>>)
            \o Respaced(Tail(str), sep)

\* What stands for a space of the name: a space, an underscore, a tab
SepChars == {" ", "_", "\t"}

Separators == UNION {[1..k -> SepChars] : k \in 1..MaxSepLen}

\* Whitespace put around the name: space, line feed, U+00A0
PadChars == {" ", "\n", " "}

Pads == SeqsOf(PadChars, 0, MaxPad)

scriptVars == <<envVars, cacheVars, pc, pending, pickVars, widgetVars, mapVars,
                drillVars, nationalVars, trendVars>>

InitNorm ==
    /\ name \in Names
    /\ identifier = name
    /\ stage = "named"
    /\ state_code = None
    /\ now = 0 /\ tables = {} /\ relation = <<>>
    /\ CachesInit
    /\ pc = [u \in Sessions |-> "off"]
    /\ ScriptInit

Recase ==
    /\ stage = "named"
    /\ \E mask \in [1..CasePeriod -> BOOLEAN] :
          identifier' = Recased(identifier, mask)
    /\ stage' = "recased"
    /\ UNCHANGED <<name, state_code, scriptVars>>

Respace ==
    /\ stage \in {"named", "recased"}
    /\ \E sep \in Separators : identifier' = Respaced(identifier, sep)
    /\ stage' = "respaced"
    /\ UNCHANGED <<name, state_code, scriptVars>>

Pad ==
    /\ stage \in {"named", "recased", "respaced"}
    /\ \E before \in Pads, after \in Pads :
          identifier' = before \o identifier \o after
    /\ stage' = "padded"
    /\ UNCHANGED <<name, state_code, scriptVars>>

\* df["state"].apply(to_state_code) on the one identifier
Normalize ==
    /\ stage \in {"named", "recased", "respaced", "padded"}
    /\ state_code' = to_state_code(identifier)
    /\ stage' = "normalized"
    /\ UNCHANGED <<name, identifier, scriptVars>>

NextNorm == Recase \/ Respace \/ Pad \/ Normalize

SpecNorm == InitNorm /\ [][NextNorm]_vars

\* C1: for each of the 51 names of STATE_TO_CODE, in any letter casing, with
\* its spaces replaced by underscores or repeated, and with whitespace around
\* it, to_state_code returns the code the table assigns to the name.
C1_NameVariantsResolve ==
    (stage = "normalized" /\ name \in DOMAIN STATE_TO_CODE)
        => state_code = STATE_TO_CODE[name]

\* A recased, underscore-joined, padded "District of Columbia" has resolved.
C1_Witness ==
    /\ stage = "normalized"
    /\ name = <<"D","i","s","t","r","i","c","t"," ","o","f"," ",
                "C","o","l","u","m","b","i","a">>
    /\ identifier # name
    /\ \E i \in 1..Len(identifier) : identifier[i] = "_"
    /\ IsSpace(identifier[1])
    /\ identifier[Len(identifier) - 1] = "I"
    /\ state_code = <<"D","C">>

\* C10 as stated: every value to_state_code returns other than None is one of
\* the 51 codes of STATE_TO_CODE.
C10_Original ==
    (stage = "normalized" /\ state_code # None) => state_code \in Codes

\* C10 amended: every value to_state_code returns other than None is one of
\* the 51 codes of STATE_TO_CODE, or it is the upper-cased trimmed input and
\* the trimmed input is exactly two alphabetic characters.
C10_CodeOrTwoLetters ==
    (stage = "normalized" /\ state_code # None)
        => \/ state_code \in Codes
           \/ /\ Len(strip(identifier)) = 2
              /\ isalpha(strip(identifier))
              /\ state_code = upper(strip(identifier))

\* A two-letter identifier that names no state came back as a code.
C10_Witness ==
    /\ stage = "normalized"
    /\ state_code # None
    /\ state_code \notin Codes
    /\ isalpha(strip(identifier))

(***************************************************************************)
(* Claims on the script.                                                   *)
(***************************************************************************)
Unresolvable(st) == to_state_code(st) = None

\* C2: a record whose state identifier fails all normalizer tiers never
\* reaches the map, the KPI statistics, the leaderboards or the
\* state-vs-national trend, the identifier chosen in the "Drill into a
\* state" selector included.
C2_UnresolvableNeverDownstream ==
    \A u \in Sessions :
       /\ \A i \in 1..Len(df[u]) : ~Unresolvable(df[u][i].state)
       /\ \A i \in 1..Len(top[u]) : ~Unresolvable(top[u][i].state)
       /\ \A i \in 1..Len(bottom[u]) : ~Unresolvable(bottom[u][i].state)
       /\ (pc[u] = "done" /\ state_trend[u] # <<>>)
             => ~Unresolvable(selected_state[u])

\* C3: within one session SOURCE is resolved once: every rerun uses the
\* variant, and with it the metric expression, of the session's first run.
C3_SourceImmutableInSession ==
    \A u \in Sessions :
       /\ SOURCE[u] # <<>> => SOURCE[u] = first_source[u]
       /\ metric_label[u] # ""
             => metric_expr[u] = metric_options(first_source[u])[metric_label[u]]

\* C4: the SOURCE and the use_national of a session come from a catalog
\* lookup made for that session, never from a value another session
\* resolved and cached.
C4_ResolvedPerSession ==
    \A u \in Sessions :
       /\ SOURCE[u] # <<>> => source_by[u] = u
       /\ pc[u] \in {"state_trend", "national_trend", "done"}
             => national_by[u] = u

\* The states of relation src, as get_states lists them
StatesOf(src) ==
    SelectSeq(Execute(states_sql(src), {src}, relation).rows,
              LAMBDA x : x # None)

\* C5: in every run the state list get_states returns is the list of the
\* states of the relation that is that run's SOURCE.
C5_StateListOfRunSource ==
    \A u \in Sessions :
       states_list[u] # <<>> => states_list[u] = StatesOf(SOURCE[u])

\* The points of the national line of the rendered trend
NationalPoints(u) == SelectSeq(trend[u], LAMBDA r : r.series = National)

\* C6: the national series of a render holds no year twice, whichever its
\* provenance and whatever rows the relation holds.
C6_NationalOneValuePerYear ==
    \A u \in Sessions :
       pc[u] = "done" =>
          \A i, j \in 1..Len(NationalPoints(u)) :
             NationalPoints(u)[i].year = NationalPoints(u)[j].year => i = j

\* A series has a value for year yr: a row of that year with a non-null metric
HasValue(frame, yr) ==
    \E i \in 1..Len(frame) : frame[i].year = Yr(yr) /\ frame[i].metric # NULL

\* C7: the delta for the selected year is produced exactly when both series
\* have a value for that year, and is omitted otherwise.
C7_DeltaExactlyWhenBothHaveValue ==
    \A u \in Sessions :
       pc[u] = "done" =>
          /\ delta[u].kind \in {"value", "omitted"}
          /\ delta[u].kind = "value"
                <=> (HasValue(state_trend[u], year[u])
                     /\ HasValue(national_trend[u], year[u]))

OtherSource(src) ==
    IF src = PREFERRED_SOURCE THEN FALLBACK_SOURCE ELSE PREFERRED_SOURCE

LabelSet == {MetricLabels[i] : i \in 1..Len(MetricLabels)}

\* C8 as stated: for both variants and all 5 labels the registry returns one
\* non-empty expression, and for every label the Curated and the Raw
\* expression differ.
C8_Original ==
    \A u \in Sessions :
       metric_label[u] # "" =>
          /\ DOMAIN metric_options(SOURCE[u]) = LabelSet
          /\ metric_expr[u] # ""
          /\ metric_expr[u] # metric_options(OtherSource(SOURCE[u]))[metric_label[u]]

\* The labels whose Raw expression is computed from other columns
DerivedLabels ==
    {"Expenditure per student", "Revenue per student", "Surplus / Deficit"}

\* C8 amended: for both variants and all 5 labels the registry returns one
\* non-empty expression; the Curated and the Raw expression differ for the
\* three derived labels and are the same column name for Total Expenditure
\* and Total Revenue.
C8_DerivedDiffer ==
    \A u \in Sessions :
       metric_label[u] # "" =>
          /\ DOMAIN metric_options(SOURCE[u]) = LabelSet
          /\ metric_expr[u] # ""
          /\ metric_label[u] \in DerivedLabels <=>
                metric_expr[u] #
                   metric_options(OtherSource(SOURCE[u]))[metric_label[u]]

\* A run over the table has taken the Raw expression of a derived label.
C8_Witness ==
    \E u \in Sessions :
       /\ pc[u] = "map_view"
       /\ SOURCE[u] = FALLBACK_SOURCE
       /\ metric_label[u] = "Revenue per student"
       /\ metric_expr[u] = "total_revenue / NULLIF(enroll, 0)"

\* The stored rows of the run's relation that the KPI cards are about: of
\* the selected year, with a resolved state code and a non-null metric
Qualifying(u) ==
    LET R == relation[SOURCE[u]]
    IN  {i \in 1..Len(R) : /\ R[i].year = Yr(year[u])
                           /\ ~Unresolvable(R[i].state)
                           /\ R[i].metric # NULL}

RECURSIVE SumOver(_, _)
SumOver(R, I) ==
    IF I = {} THEN <<0, 1>>
    ELSE LET i == CHOOSE k \in I : TRUE
             t == SumOver(R, I \ {i})
             m == R[i].metric
         IN  Frac(m[1] * t[2] + t[1] * m[2], m[2] * t[2])

\* C9: the KPI mean, max and min are those of exactly the records with a
\* resolved state code and a non-null metric, in whatever order and among
\* whatever other records they are stored; with no such record the cards
\* show the placeholder.
C9_KpiOverQualifyingRecords ==
    \A u \in Sessions :
       pc[u] = "drill_down" =>
          LET R == relation[SOURCE[u]]
              I == Qualifying(u)
              t == SumOver(R, I)
          IN  IF I = {}
              THEN /\ kpi[u].avg = Placeholder
                   /\ kpi[u].max = Placeholder
                   /\ kpi[u].min = Placeholder
              ELSE /\ kpi[u].avg = Fmt2(float(Frac(t[1], t[2] * Cardinality(I))))
                   /\ \E i \in I :
                         /\ kpi[u].max = Fmt2(float(R[i].metric))
                         /\ \A j \in I : ~FracLess(R[i].metric, R[j].metric)
                   /\ \E i \in I :
                         /\ kpi[u].min = Fmt2(float(R[i].metric))
                         /\ \A j \in I : ~FracLess(R[j].metric, R[i].metric)

\* The year's rows held a record with an unresolvable identifier and a
\* metric, stored before a qualifying record, and the cards show numbers.
C9_Witness ==
    \E u \in Sessions :
       /\ pc[u] = "drill_down"
       /\ LET R == relation[SOURCE[u]]
          IN  /\ Len(R) = 3
              /\ R[2].year = Yr(year[u]) /\ Unresolvable(R[2].state)
              /\ R[2].metric = Num(30)
              /\ R[3].year = Yr(year[u]) /\ R[3].metric = Num(-5)
       /\ kpi[u].avg = <<"-", "5", ".", "0", "0">>
       /\ kpi[u].max = <<"-", "5", ".", "0", "0">>
=============================================================================
